---- MODULE Spec2Model ----
(***************************************************************************)
(* State-machine model of the RAG PDF Q&A assistant:                       *)
(*   embedding_manager.py  (vector store adapter: store / query / reset)   *)
(*   llm_handler.py        (generate_answer)                               *)
(*   rag_pipeline.py       (answer_question)                               *)
(*   pdf_processor.py      (extract_text_from_pdf, chunk_text)             *)
(*   app.py                (Streamlit script: clear, upload loop, chat)    *)
(*                                                                         *)
(* The embedding model, the vector database, the text splitter and the     *)
(* language model are external libraries.  Each call to one of them is     *)
(* modelled by its outcome (a value, or an exception), chosen              *)
(* nondeterministically; what the repository's code does with the outcome  *)
(* is modelled from the code.                                              *)
(***************************************************************************)
EXTENDS Integers, Sequences, FiniteSets, TLC

\* ------------------------------------------------------------------ bounds
MaxBatch == 2
MaxDist == 2
MaxExchanges == 1

\* ------------------------------------------------------- program constants
None == "<None>"
COLLECTION_NAME == "pdf_chunks"
TOP_K == 5
NO_CONTEXT == "No relevant context found."
SORRY == "Sorry, I couldn't find an answer."

\* ------------------------------------------------------------ input domains
Names == {"a.pdf", "b.pdf"}
Texts == {"t1", "t2"}
Questions == {"q"}
GeneratedTexts == {"Paris"}
ExceptionMessages == {"", "boom"}
\* Outcome of the library calls made while one uploaded file is indexed.
IndexFaults == {"none", "embed", "collection", "add"}
\* An uploaded file: its name, the text pypdf can extract from it (None for an
\* invalid, corrupt or image-only file) and the library fault met while
\* indexing it.
UploadedFiles ==
  {f \in [name : Names, text : Texts \cup {None}, fault : IndexFaults] :
      f.text = None => f.fault = "none"}
\* Batches handed over by st.file_uploader: files with distinct names.
Batches ==
  UNION {{b \in [1..n -> UploadedFiles] :
            \A i, j \in 1..n : i # j => b[i].name # b[j].name} : n \in 0..MaxBatch}

\* ------------------------------------------------------------------ helpers
Range(s) == {s[i] : i \in 1..Len(s)}

RECURSIVE SumSeq(_)
SumSeq(s) == IF s = <<>> THEN 0 ELSE s[1] + SumSeq(Tail(s))

\* Python truthiness of an Optional[str].
Truthy(x) == x # None /\ x # ""

\* ------------------------------------------------------------ pdf_processor
\* extract_text_from_pdf: the extracted text, or None.
extract_text_from_pdf(file) == file.text

\* chunk_text: RecursiveCharacterTextSplitter, a deterministic function of the
\* text that yields at least one chunk for a non-blank text.
chunk_text(text) ==
  IF text = "t1" THEN <<"t1#0">> ELSE <<"t2#0", "t2#1">>

\* -------------------------------------------------------- embedding_manager
\* model.encode: one vector per chunk, order preserving.
Encode(chunk) == <<"vec", chunk>>

\* f"{source_pdf}_{i}": the index is the part after the last underscore, so
\* the id determines the pair and the pair is the id.
MakeId(source_pdf, i) == <<source_pdf, i>>

\* ids = [f"{source_pdf}_{i}" for i in range(len(chunks))]
Ids(source_pdf, chunks) == {MakeId(source_pdf, i) : i \in 0..(Len(chunks) - 1)}

\* The record store_embeddings hands to collection.add for chunk i (0-based).
NewRecord(source_pdf, chunks, i) ==
  [embedding |-> Encode(chunks[i + 1]),
   document  |-> chunks[i + 1],
   metadata  |-> [source_pdf |-> source_pdf, chunk_index |-> i]]

EmptyStore == [id \in {} |-> None]

VARIABLES
  collections,     \* names of the collections that exist in the Chroma client
  stored,          \* content of collection pdf_chunks: id -> record
  add_existing,    \* what collection.add does with an id that exists already
  loaded_pdfs,     \* st.session_state.loaded_pdfs
  chat_history,    \* st.session_state.chat_history
  pc,              \* "idle", "upload" (inside the upload loop), "done" (operation over)
  uploaded_files,  \* the batch of the current (or last) upload pass
  idx,             \* 1-based position of the upload loop in uploaded_files
  passlog,         \* outcome of each file processed in the pass so far
  pass_ids,        \* ids stored when the pass began
  response,        \* the result of the last answer_question call
  call,            \* what happened inside the last answer_question call
  last_op          \* the operation that ran last

vars == <<collections, stored, add_existing, loaded_pdfs, chat_history, pc,
          uploaded_files, idx, passlog, pass_ids, response, call, last_op>>

\* collection.add(embeddings, documents, ids, metadatas).  The code calls add,
\* not upsert.  For an id that is already in the collection the library either
\* raises (IDAlreadyExistsError) or keeps the old record and ignores the new
\* one, depending on its version; ids that are new are inserted.
\* policy is that behaviour; the result is the new content, or raised.
collection_add(st, policy, source_pdf, chunks) ==
  LET ids      == Ids(source_pdf, chunks)
      existing == ids \cap DOMAIN st
  IN IF existing # {} /\ policy = "raise"
       THEN [raised |-> TRUE, stored |-> st]
       ELSE [raised |-> FALSE,
             stored |-> [id \in DOMAIN st \cup ids |->
                           IF id \in DOMAIN st THEN st[id]
                           ELSE NewRecord(source_pdf, chunks, id[2])]]

\* store_embeddings: get_or_create_collection (raises on a client fault), then
\* collection.add inside try/except that logs and re-raises.
store_embeddings(cols, st, policy, chunks, source_pdf, fault) ==
  IF fault = "collection"
    THEN [raised |-> TRUE, collections |-> cols, stored |-> st]
    ELSE LET added == IF fault = "add" THEN [raised |-> TRUE, stored |-> st]
                      ELSE collection_add(st, policy, source_pdf, chunks)
         IN [raised |-> added.raised,
             collections |-> cols \cup {COLLECTION_NAME},
             stored |-> added.stored]

\* reset_database: delete every listed collection; any exception is logged and
\* swallowed.  ok = FALSE is the run in which list_collections or
\* delete_collection raises.
reset_database(cols, st, ok) ==
  IF ok THEN [collections |-> {}, stored |-> EmptyStore]
        ELSE [collections |-> cols, stored |-> st]

\* collection.query(query_embeddings, n_results=top_k, include=[...]): the
\* min(top_k, count) nearest records, each once, by increasing distance; which
\* records are nearest, and how near, depends on the embeddings.
Rankings(ids, k) ==
  {r \in [1..k -> ids] : \A i, j \in 1..k : i # j => r[i] # r[j]}

DistanceLists(k) ==
  {d \in [1..k -> 0..MaxDist] : \A i \in 1..(k - 1) : d[i] <= d[i + 1]}

QueryResults(st, top_k) ==
  LET n == Cardinality(DOMAIN st)
      k == IF top_k < n THEN top_k ELSE n
  IN {[i \in 1..k |-> [document |-> st[r[i]].document,
                       distance |-> d[i],
                       metadata |-> st[r[i]].metadata]] :
        r \in Rankings(DOMAIN st, k), d \in DistanceLists(k)}

\* query_similar_chunks: get_or_create_collection and load_embedding_model are
\* called outside the try block, so their exceptions leave the function; an
\* exception of encode or of collection.query is logged and [] is returned.
\* Otherwise one {chunk, score, metadata} per result, in result order.
query_similar_chunks(rfault, results) ==
  IF rfault \in {"collection", "model"}
    THEN [raised |-> TRUE, output |-> <<>>]
  ELSE IF rfault \in {"encode", "query"}
    THEN [raised |-> FALSE, output |-> <<>>]
  ELSE [raised |-> FALSE,
        output |-> [i \in 1..Len(results) |->
                      [chunk    |-> results[i].document,
                       score    |-> 1 - results[i].distance,
                       metadata |-> results[i].metadata]]]

\* ---------------------------------------------------------------- llm_handler
\* generate_answer: the stripped generated text, or None when load_llm or the
\* pipeline raises (the exception is logged, not re-raised).
generate_answer(llm) == IF llm = "failed" THEN None ELSE llm

\* --------------------------------------------------------------- rag_pipeline
\* A float as an exact fraction <<numerator, denominator>>, denominator > 0.
Zero == <<0, 1>>

\* Confidence dividing by top_k instead of the number of retrieved chunks.
ConfidenceOverTopK(scores) ==
  IF scores # <<>> THEN <<SumSeq(scores), TOP_K>> ELSE Zero

\* confidence = float(sum(scores)) / len(scores) if scores else 0.0
Confidence(scores) ==
  IF scores # <<>> THEN <<SumSeq(scores), Len(scores)>> ELSE Zero

\* FormatSources listing the chunks in reverse order.
FormatSourcesReversed(retrieved) ==
  [i \in 1..Len(retrieved) |->
     [source_pdf  |-> retrieved[Len(retrieved) + 1 - i].metadata.source_pdf,
      chunk_index |-> retrieved[Len(retrieved) + 1 - i].metadata.chunk_index,
      score       |-> retrieved[Len(retrieved) + 1 - i].score]]

\* sources = [{source_pdf, chunk_index, score} for item in retrieved]
FormatSources(retrieved) ==
  [i \in 1..Len(retrieved) |->
     [source_pdf  |-> retrieved[i].metadata.source_pdf,
      chunk_index |-> retrieved[i].metadata.chunk_index,
      score       |-> retrieved[i].score]]

\* answer_question without the "if not retrieved" early return.
answer_question_no_empty_check(rfault, results, llm, msg) ==
  LET q == query_similar_chunks(rfault, results)
  IN IF q.raised
       THEN [answer |-> None, sources |-> <<>>, confidence |-> Zero,
             chunks |-> <<>>, error |-> msg]
     ELSE [answer     |-> generate_answer(llm),
           sources    |-> FormatSources(q.output),
           confidence |-> Confidence([i \in 1..Len(q.output) |-> q.output[i].score]),
           chunks     |-> q.output,
           error      |-> None]

\* answer_question.  rfault and results are the outcome of the retrieval's
\* library calls, llm the outcome of the generation ("failed" or the text), msg
\* the text of an exception that reaches the except clause.
answer_question(rfault, results, llm, msg) ==
  LET q == query_similar_chunks(rfault, results)
  IN IF q.raised
       THEN [answer |-> None, sources |-> <<>>, confidence |-> Zero,
             chunks |-> <<>>, error |-> msg]
     ELSE IF q.output = <<>>
       THEN [answer |-> None, sources |-> <<>>, confidence |-> Zero,
             chunks |-> <<>>, error |-> NO_CONTEXT]
     ELSE [answer     |-> generate_answer(llm),
           sources    |-> FormatSources(q.output),
           confidence |-> Confidence([i \in 1..Len(q.output) |-> q.output[i].score]),
           chunks     |-> q.output,
           error      |-> None]

\* What the libraries can do during one answer_question call in store st.
CallOutcomes(st, top_k) ==
  {[rfault |-> "none", results |-> res, llm |-> l, msg |-> ""] :
     res \in QueryResults(st, top_k), l \in GeneratedTexts \cup {"failed"}}
  \cup {[rfault |-> f, results |-> <<>>, llm |-> "failed", msg |-> ""] :
          f \in {"encode", "query"}}
  \cup {[rfault |-> f, results |-> <<>>, llm |-> "failed", msg |-> m] :
          f \in {"collection", "model"}, m \in ExceptionMessages}

\* The record of one call: the library outcomes and whether generate_answer ran.
CallRecord(o) ==
  [made |-> TRUE, rfault |-> o.rfault, results |-> o.results,
   generated |-> o.llm,
   generate_invoked |-> o.rfault = "none" /\ o.results # <<>>]

\* get_or_create_collection creates the collection unless it raises.
CollectionsAfterQuery(cols, rfault) ==
  IF rfault = "collection" THEN cols ELSE cols \cup {COLLECTION_NAME}

\* ---------------------------------------------------------------- app.main
NoCall == [made |-> FALSE, rfault |-> "none", results |-> <<>>,
           generated |-> "failed", generate_invoked |-> FALSE]
NoResponse == [answer |-> None, sources |-> <<>>, confidence |-> Zero,
               chunks |-> <<>>, error |-> None]

\* if response["error"]: display_error(...)  else: append the user entry and
\* the assistant entry.  An entry is kept as its role and content.
HistoryAfter(history, question, resp) ==
  IF Truthy(resp.error) THEN history
  ELSE history \o <<[role |-> "user", content |-> question],
                    [role |-> "assistant",
                     content |-> IF Truthy(resp.answer) THEN resp.answer ELSE SORRY]>>

\* MarkLoaded with the append moved before the indexing calls.
MarkLoadedBeforeIndexing(loaded, name, outcome) ==
  IF name \notin Range(loaded) THEN Append(loaded, name) ELSE loaded

\* if uploaded_file.name not in loaded_pdfs: loaded_pdfs.append(name); reached
\* only when the file's outcome is "indexed".
MarkLoaded(loaded, name, outcome) ==
  IF outcome = "indexed" /\ name \notin Range(loaded)
    THEN Append(loaded, name) ELSE loaded

Init ==
  /\ collections = {}
  /\ stored = EmptyStore
  /\ add_existing \in {"raise", "ignore"}
  /\ loaded_pdfs = <<>>
  /\ chat_history = <<>>
  /\ pc = "idle"
  /\ uploaded_files = <<>>
  /\ idx = 0
  /\ passlog = <<>>
  /\ pass_ids = {}
  /\ response = NoResponse
  /\ call = NoCall
  /\ last_op = "none"

\* The "Clear All Data" button.
ClearAllData ==
  /\ pc = "idle"
  /\ \E ok \in BOOLEAN :
       LET r == reset_database(collections, stored, ok)
       IN /\ collections' = r.collections
          /\ stored' = r.stored
  /\ loaded_pdfs' = <<>>
  /\ chat_history' = <<>>
  /\ uploaded_files' = <<>>
  /\ idx' = 0
  /\ passlog' = <<>>
  /\ pass_ids' = {}
  /\ response' = NoResponse
  /\ call' = NoCall
  /\ last_op' = "clear"
  /\ pc' = "done"
  /\ UNCHANGED add_existing

\* if uploaded_files: start of the upload loop.
UploadStart ==
  /\ pc = "idle"
  /\ \E files \in Batches :
       /\ files # <<>>
       /\ uploaded_files' = files
  /\ pc' = "upload"
  /\ idx' = 1
  /\ passlog' = <<>>
  /\ pass_ids' = DOMAIN stored
  /\ response' = NoResponse
  /\ call' = NoCall
  /\ last_op' = "upload"
  /\ UNCHANGED <<collections, stored, add_existing, loaded_pdfs, chat_history>>

InLoop == pc = "upload" /\ idx <= Len(uploaded_files)

\* text = extract_text_from_pdf(...); if not text: display_error; continue
ExtractFails ==
  /\ InLoop
  /\ extract_text_from_pdf(uploaded_files[idx]) = None
  /\ passlog' = Append(passlog, "extract_failed")
  /\ idx' = idx + 1
  /\ UNCHANGED <<collections, stored, add_existing, loaded_pdfs, chat_history,
                 pc, uploaded_files, pass_ids, response, call, last_op>>

\* embed_chunks raises (model load or encode): the exception leaves main().
EmbedRaises ==
  /\ InLoop
  /\ extract_text_from_pdf(uploaded_files[idx]) # None
  /\ uploaded_files[idx].fault = "embed"
  /\ passlog' = Append(passlog, "embed_raised")
  /\ pc' = "done"
  /\ UNCHANGED <<collections, stored, add_existing, loaded_pdfs, chat_history,
                 uploaded_files, idx, pass_ids, response, call, last_op>>

\* embed_chunks returns; store_embeddings either raises (the exception leaves
\* main()) or returns, and then the name is appended to loaded_pdfs.
StoreFile ==
  /\ InLoop
  /\ extract_text_from_pdf(uploaded_files[idx]) # None
  /\ uploaded_files[idx].fault # "embed"
  /\ LET file   == uploaded_files[idx]
         chunks == chunk_text(extract_text_from_pdf(file))
         r      == store_embeddings(collections, stored, add_existing, chunks,
                                    file.name, file.fault)
         outcome == IF r.raised THEN "store_raised" ELSE "indexed"
     IN /\ collections' = r.collections
        /\ stored' = r.stored
        /\ passlog' = Append(passlog, outcome)
        /\ loaded_pdfs' = MarkLoaded(loaded_pdfs, file.name, outcome)
        /\ pc' = IF r.raised THEN "done" ELSE "upload"
        /\ idx' = IF r.raised THEN idx ELSE idx + 1
  /\ UNCHANGED <<add_existing, chat_history, uploaded_files, pass_ids,
                 response, call, last_op>>

\* The loop is exhausted: progress.empty(), processing = False.
UploadDone ==
  /\ pc = "upload"
  /\ idx > Len(uploaded_files)
  /\ pc' = "done"
  /\ UNCHANGED <<collections, stored, add_existing, loaded_pdfs, chat_history,
                 uploaded_files, idx, passlog, pass_ids, response, call, last_op>>

\* The chat form, shown only when loaded_pdfs is not empty: submit and a
\* non-empty question call answer_question and record the exchange.
AskQuestion ==
  /\ pc = "idle"
  /\ loaded_pdfs # <<>>
  /\ \E question \in Questions, o \in CallOutcomes(stored, TOP_K) :
       LET resp == answer_question(o.rfault, o.results, o.llm, o.msg)
       IN /\ Len(HistoryAfter(chat_history, question, resp)) <= 2 * MaxExchanges
          /\ response' = resp
          /\ call' = CallRecord(o)
          /\ collections' = CollectionsAfterQuery(collections, o.rfault)
          /\ chat_history' = HistoryAfter(chat_history, question, resp)
  /\ uploaded_files' = <<>>
  /\ idx' = 0
  /\ passlog' = <<>>
  /\ pass_ids' = {}
  /\ last_op' = "ask"
  /\ pc' = "done"
  /\ UNCHANGED <<stored, add_existing, loaded_pdfs>>

\* rag_pipeline.answer_question called directly, with the default top_k.
AnswerQuestionCall ==
  /\ pc = "idle"
  /\ \E o \in CallOutcomes(stored, TOP_K) :
       /\ response' = answer_question(o.rfault, o.results, o.llm, o.msg)
       /\ call' = CallRecord(o)
       /\ collections' = CollectionsAfterQuery(collections, o.rfault)
  /\ uploaded_files' = <<>>
  /\ idx' = 0
  /\ passlog' = <<>>
  /\ pass_ids' = {}
  /\ last_op' = "call"
  /\ pc' = "done"
  /\ UNCHANGED <<stored, add_existing, loaded_pdfs, chat_history>>

\* The operation is over: its locals (the batch, the response) are dropped; the
\* store and st.session_state stay (init_session_state sets only absent keys).
Rerun ==
  /\ pc = "done"
  /\ pc' = "idle"
  /\ uploaded_files' = <<>>
  /\ idx' = 0
  /\ passlog' = <<>>
  /\ pass_ids' = {}
  /\ response' = NoResponse
  /\ call' = NoCall
  /\ last_op' = "none"
  /\ UNCHANGED <<collections, stored, add_existing, loaded_pdfs, chat_history>>

Next ==
  \/ Rerun
  \/ ClearAllData
  \/ UploadStart
  \/ ExtractFails
  \/ EmbedRaises
  \/ StoreFile
  \/ UploadDone
  \/ AskQuestion
  \/ AnswerQuestionCall

Spec == Init /\ [][Next]_vars

\* ===================================================================== claims
PassEnded == pc = "done" /\ last_op = "upload"
FileIds(f) == Ids(f.name, chunk_text(f.text))
Similarity(r) == 1 - r.distance
StepFailed ==
  \/ call.rfault # "none"
  \/ call.generate_invoked /\ call.generated = "failed"

\* C1: when the generation fails after a non-empty retrieval, the result is
\* answer = null, sources = [], confidence = 0.0 and a non-null error.
C1_GenerationFailedShape ==
  (call.made /\ call.results # <<>> /\ call.generated = "failed")
    => /\ response.answer = None
       /\ response.sources = <<>>
       /\ response.confidence[1] = 0
       /\ response.error # None

\* C2: every result of answer_question has either a non-null answer and a null
\* error, or a null answer and a non-null error.
C2_ExactlyOneOfAnswerError ==
  call.made
    => \/ response.answer # None /\ response.error = None
       \/ response.answer = None /\ response.error # None

\* C3: whichever step of answer_question fails, the call returns a result
\* whose error field is set.
C3_FailureSetsError ==
  (call.made /\ pc = "done" /\ StepFailed) => response.error # None

\* C4: when an upload pass is over, every file of the batch that would be
\* indexed on its own (text extracted, no library fault, no id clash with what
\* was stored before the pass) is stored and listed in loaded_pdfs.
WouldSucceedAlone(f) ==
  /\ f.text # None
  /\ f.fault = "none"
  /\ add_existing = "ignore" \/ FileIds(f) \cap pass_ids = {}
C4_FailuresIsolatedPerDocument ==
  PassEnded
    => \A i \in 1..Len(uploaded_files) :
         WouldSucceedAlone(uploaded_files[i])
           => /\ uploaded_files[i].name \in Range(loaded_pdfs)
              /\ FileIds(uploaded_files[i]) \subseteq DOMAIN stored

\* C5: indexing a source whose (source_id, index) keys are all stored already
\* completes, leaves the keys of that source as they were, and each key holds
\* the record of the second indexing (overwrite).
C5_ReindexIsUpsert ==
  \A i \in 1..Len(passlog) :
    LET f == uploaded_files[i]
    IN (f.text # None /\ f.fault = "none" /\ FileIds(f) \subseteq pass_ids)
         => /\ passlog[i] = "indexed"
            /\ {id \in DOMAIN stored : id[1] = f.name}
                 = {id \in pass_ids : id[1] = f.name}
            /\ \A id \in FileIds(f) :
                 /\ id \in DOMAIN stored
                 /\ stored[id] = NewRecord(f.name, chunk_text(f.text), id[2])

\* C6: after Clear All Data the store has no collection and no vector, and
\* loaded_pdfs is never empty while vectors are stored.
C6_ResetLeavesFirstRunState ==
  /\ last_op = "clear" => (collections = {} /\ DOMAIN stored = {})
  /\ loaded_pdfs = <<>> => DOMAIN stored = {}

\* C7: a step adds a name to loaded_pdfs only if it is the upload loop's step
\* for a file of that name whose text was extracted and whose embedding and
\* storage completed without error, its records being stored.
C7_LoadedOnlyAfterIndexing ==
  [][\A n \in Names :
       (n \in Range(loaded_pdfs') /\ n \notin Range(loaded_pdfs))
         => /\ InLoop
            /\ uploaded_files[idx].name = n
            /\ extract_text_from_pdf(uploaded_files[idx]) # None
            /\ uploaded_files[idx].fault = "none"
            /\ Len(passlog') = idx
            /\ passlog'[idx] = "indexed"
            /\ FileIds(uploaded_files[idx]) \subseteq DOMAIN stored']_vars

\* C7 witness: a pass ended by an embedding or storage failure of a file that
\* is not listed in loaded_pdfs, after another file of the pass was listed.
C7_Witness ==
  /\ PassEnded
  /\ Len(passlog) = 2
  /\ passlog[1] = "indexed"
  /\ passlog[2] \in {"embed_raised", "store_raised"}
  /\ uploaded_files[1].name \in Range(loaded_pdfs)
  /\ uploaded_files[2].name \notin Range(loaded_pdfs)

\* C8 as stated: on an empty corpus the retrieval returns an empty sequence
\* and answer_question returns the "No relevant context found." result without
\* invoking the generation.
C8_EmptyCorpusNoContext ==
  (call.made /\ DOMAIN stored = {})
    => /\ call.rfault \notin {"collection", "model"}
       /\ response.answer = None
       /\ response.sources = <<>>
       /\ response.confidence[1] = 0
       /\ response.error = NO_CONTEXT
       /\ ~call.generate_invoked

\* C8 amended: on an empty corpus answer_question returns answer = null,
\* sources = [], confidence = 0.0 and a non-null error without invoking the
\* generation; the error is "No relevant context found." unless obtaining the
\* collection or loading the embedding model raised, and then it is the text of
\* that exception.
C8_EmptyCorpusError ==
  (call.made /\ DOMAIN stored = {})
    => /\ response.answer = None
       /\ response.sources = <<>>
       /\ response.confidence[1] = 0
       /\ response.error # None
       /\ ~call.generate_invoked
       /\ call.rfault \notin {"collection", "model"} => response.error = NO_CONTEXT
       /\ call.rfault \in {"collection", "model"} => response.error \in ExceptionMessages

\* C8 witness: a call on an empty corpus, all library calls succeeding.
C8_Witness ==
  /\ call.made
  /\ DOMAIN stored = {}
  /\ call.rfault = "none"
  /\ response.error = NO_CONTEXT

\* C9: for a non-empty retrieval the confidence is the arithmetic mean of the
\* similarities 1 - distance of all retrieved chunks, and it lies in [0, 1]
\* when every similarity does.
C9_ConfidenceIsMean ==
  (call.made /\ call.results # <<>>)
    => LET k   == Len(call.results)
           sum == SumSeq([i \in 1..k |-> Similarity(call.results[i])])
           c   == response.confidence
       IN /\ c[2] > 0
          /\ c[1] * k = sum * c[2]
          /\ (\A i \in 1..k : /\ 0 <= Similarity(call.results[i])
                              /\ Similarity(call.results[i]) <= 1)
               => (0 <= c[1] /\ c[1] <= c[2])

\* C9 witness: two or more chunks retrieved at different distances, every
\* similarity in [0, 1], the confidence strictly between 0 and 1.
C9_Witness ==
  /\ call.made
  /\ Len(call.results) >= 2
  /\ \A i \in 1..Len(call.results) : call.results[i].distance \in {0, 1}
  /\ 0 < response.confidence[1]
  /\ response.confidence[1] < response.confidence[2]

\* C10: a successful result has one source per retrieved chunk, in retrieval
\* order, the i-th carrying the source id, chunk index and similarity of the
\* i-th retrieved chunk.
C10_SourcesFollowRetrieval ==
  (call.made /\ response.error = None /\ response.answer # None)
    => /\ Len(response.sources) = Len(call.results)
       /\ \A i \in 1..Len(call.results) :
            /\ response.sources[i].source_pdf = call.results[i].metadata.source_pdf
            /\ response.sources[i].chunk_index = call.results[i].metadata.chunk_index
            /\ response.sources[i].score = Similarity(call.results[i])

\* C10 witness: a successful result over chunks of two documents retrieved at
\* different distances.
C10_Witness ==
  /\ call.made
  /\ response.error = None
  /\ response.answer # None
  /\ Len(response.sources) >= 2
  /\ response.sources[1].source_pdf # response.sources[2].source_pdf
  /\ response.sources[1].score # response.sources[2].score

\* chat_history has even length and its entries alternate user, assistant.
AlternatesUserAssistant(history) ==
  /\ Len(history) % 2 = 0
  /\ \A i \in 1..Len(history) :
       history[i].role = IF i % 2 = 1 THEN "user" ELSE "assistant"

AskStep == pc = "idle" /\ last_op' = "ask"
ClearStep == pc = "idle" /\ last_op' = "clear"

\* C11: chat_history changes only by a question whose result has error = null,
\* which appends one user entry and then one assistant entry, and by Clear All
\* Data, which empties it; a question whose result has a non-null error leaves
\* it unchanged; so it always has even length and alternates user, assistant.
C11_ChatHistoryFrame ==
  [][/\ (AskStep /\ response'.error = None)
          => /\ Len(chat_history') = Len(chat_history) + 2
             /\ SubSeq(chat_history', 1, Len(chat_history)) = chat_history
             /\ chat_history'[Len(chat_history) + 1].role = "user"
             /\ chat_history'[Len(chat_history) + 2].role = "assistant"
     /\ (AskStep /\ response'.error # None) => chat_history' = chat_history
     /\ ClearStep => chat_history' = <<>>
     /\ chat_history' # chat_history => (AskStep \/ ClearStep)
     /\ AlternatesUserAssistant(chat_history')]_vars

\* The part of C11 that does not depend on how the error is tested: the
\* history has even length and alternates user, assistant in every state.
C11_HistoryAlternates == AlternatesUserAssistant(chat_history)
====
